---- MODULE Spec2Model ----
(***************************************************************************)
(* A model of civil_krippendorff_alpha.py: the function                    *)
(* krippendorff_alpha(data, metric, force_vecmath, convert_items,          *)
(* missing_items) and the three built-in metrics.                          *)
(*                                                                         *)
(* Raw ratings are written as strings (the numerals "-1", "0", "1", "5",   *)
(* the letters "a".."d", the caller's marker "*" and numpy's masked        *)
(* singleton "--").  float() turns a numeral into a number and fails on    *)
(* anything else.  Numbers the function computes with (metric values, Do,  *)
(* De, alpha) are exact rationals extended with inf, -inf and nan, the     *)
(* values numpy's float64 division yields for x/0 and 0/0; rounding of     *)
(* finite floats is not modelled.                                          *)
(***************************************************************************)
EXTENDS Integers, Sequences, FiniteSets, TLC

\* ------------------------------------------------------------------ bounds
MaxCoders == 2
MaxUnits == 2

\* ------------------------------------------------------------- raw values
Star == "*"
Masked == "--"
None == <<"None">>

\* ----------------------------------------------------------------- numbers
Abs(x) == IF x < 0 THEN -x ELSE x

RECURSIVE GCD(_, _)
GCD(a, b) == IF b = 0 THEN a ELSE GCD(b, a % b)

\* the rational n/d (d # 0) in lowest terms with a positive denominator
Fin(n, d) ==
    LET s == IF d < 0 THEN -1 ELSE 1
        g == GCD(Abs(n), Abs(d))
    IN [k |-> "fin", n |-> (s * n) \div g, d |-> (s * d) \div g]

Inf == [k |-> "inf", n |-> 0, d |-> 1]
NInf == [k |-> "ninf", n |-> 0, d |-> 1]
NaN == [k |-> "nan", n |-> 0, d |-> 1]
\* the value of an expression whose evaluation raised ZeroDivisionError
Err == [k |-> "err", n |-> 0, d |-> 1]
Unset == [k |-> "unset", n |-> 0, d |-> 1]
Zero == Fin(0, 1)
One == Fin(1, 1)

IsFin(x) == x.k = "fin"
IsZero(x) == x.k = "fin" /\ x.n = 0
IsPos(x) == x.k = "inf" \/ (x.k = "fin" /\ x.n > 0)
\* x < y and x <= y as float comparisons of finite values (false for nan)
Less(x, y) == IsFin(x) /\ IsFin(y) /\ x.n * y.d < y.n * x.d
LessEq(x, y) == IsFin(x) /\ IsFin(y) /\ x.n * y.d <= y.n * x.d

\* x + y
XAdd(x, y) ==
    IF x.k = "err" \/ y.k = "err" THEN Err
    ELSE IF x.k = "nan" \/ y.k = "nan" THEN NaN
    ELSE IF x.k = "fin" /\ y.k = "fin" THEN Fin(x.n * y.d + y.n * x.d, x.d * y.d)
    ELSE IF x.k = "fin" THEN y
    ELSE IF y.k = "fin" THEN x
    ELSE IF x.k = y.k THEN x
    ELSE NaN

\* x / float(c) for an integer c > 0
XDivInt(x, c) == IF x.k = "fin" THEN Fin(x.n, x.d * c) ELSE x

\* x * x
XSquare(x) ==
    IF x.k = "fin" THEN Fin(x.n * x.n, x.d * x.d)
    ELSE IF x.k \in {"inf", "ninf"} THEN Inf
    ELSE x

\* x / y for floats x, y with y # 0
XDiv(x, y) ==
    IF x.k = "nan" \/ y.k = "nan" THEN NaN
    ELSE IF x.k = "fin" /\ y.k = "fin" THEN Fin(x.n * y.d, x.d * y.n)
    ELSE IF x.k = "fin" THEN Zero
    ELSE IF y.k = "fin" THEN (IF (x.k = "inf") = (y.n > 0) THEN Inf ELSE NInf)
    ELSE NaN

\* 1. - x
XOneMinus(x) ==
    IF x.k = "fin" THEN Fin(x.d - x.n, x.d)
    ELSE IF x.k = "inf" THEN NInf
    ELSE IF x.k = "ninf" THEN Inf
    ELSE x

\* a / b on the integers-valued floats a, b: Python's float division raises
\* ZeroDivisionError when b == 0; numpy's elementwise division (vec) warns
\* and yields nan for 0/0 and +-inf for x/0
TrueDivide(a, b, vec) ==
    IF b # 0 THEN Fin(a, b)
    ELSE IF ~vec THEN Err
    ELSE IF a = 0 THEN NaN
    ELSE IF a > 0 THEN Inf ELSE NInf

\* ----------------------------------------------------------------- metrics
\* mutant: the comparison inverted (a == b)
nominal_metric_same(a, b) == IF a = b THEN One ELSE Zero

nominal_metric(a, b) == IF a # b THEN One ELSE Zero

interval_metric(a, b) == Fin((a - b) * (a - b), 1)

ratio_metric(a, b, vec) == XSquare(TrueDivide(a - b, a + b, vec))

MetricNames == {"nominal", "interval", "ratio"}

\* metric(a, b), for a metric function computing the named distance
Distance(fn, a, b, vec) ==
    IF fn = "nominal" THEN nominal_metric(a, b)
    ELSE IF fn = "interval" THEN interval_metric(a, b)
    ELSE ratio_metric(a, b, vec)

RECURSIVE SumSeq(_)
SumSeq(s) == IF s = <<>> THEN Zero ELSE XAdd(SumSeq(SubSeq(s, 1, Len(s) - 1)), s[Len(s)])


\* ------------------------------------------------------------- conversion
Numerals == {"-1", "0", "1", "5"}

\* float(g) of a numeral
FloatOf(g) ==
    CASE g = "-1" -> -1
      [] g = "0" -> 0
      [] g = "1" -> 1
      [] g = "5" -> 5

\* whether convert_items(g) returns (float raises ValueError on a non-numeral)
Converts(convert, g) == convert = "identity" \/ g \in Numerals

convert_items(convert, g) == IF convert = "float" THEN FloatOf(g) ELSE g

\* --------------------------------------------------- lines 56-62: maskitems
NumpyAvailable == TRUE

MaskItems(missing) ==
    LET base == IF missing = None THEN <<>> ELSE missing
    IN IF NumpyAvailable THEN Append(base, Masked) ELSE base

\* mutant: maskitems is the caller's list itself, so the append reaches it
CallerMissingItems_aliased(missing) ==
    IF missing = None THEN None ELSE Append(missing, Masked)

\* the caller's missing_items object once maskitems is built: list() copied it
CallerMissingItems(missing) == missing

\* mutant: only the first marker is compared
InMask_first(g, maskitems) == maskitems # <<>> /\ maskitems[1] = g

\* g in maskitems
InMask(g, maskitems) == \E i \in DOMAIN maskitems : maskitems[i] = g

\* ------------------------------------------------ lines 65-81: normalizing
\* mutant: a sequence's items all get key 0 instead of their position
Diter_no_position(d) ==
    IF d.kind = "dict"
    THEN [i \in 1..Len(d.vals) |-> <<d.keys[i], d.vals[i]>>]
    ELSE [i \in 1..Len(d.vals) |-> <<0, d.vals[i]>>]

\* a coder d is [kind, keys, vals]: a sequence (kind "seq", its values in
\* vals) or a mapping (kind "dict", its keys and values in insertion order)
Diter(d) ==
    IF d.kind = "dict"
    THEN [i \in 1..Len(d.vals) |-> <<d.keys[i], d.vals[i]>>]
    ELSE [i \in 1..Len(d.vals) |-> <<i - 1, d.vals[i]>>]

\* units is the dict of the code, in insertion order: a sequence of
\* [it |-> unit key, its |-> the list of grades]
HasUnit(units, it) == \E i \in DOMAIN units : units[i].it = it

\* mutant: a known unit's list is replaced instead of appended to
AppendGrade_reset(units, it, grade) ==
    IF \E i \in DOMAIN units : units[i].it = it
    THEN [i \in DOMAIN units |->
            IF units[i].it = it THEN [it |-> it, its |-> <<grade>>] ELSE units[i]]
    ELSE Append(units, [it |-> it, its |-> <<grade>>])

AppendGrade(units, it, grade) ==
    IF HasUnit(units, it)
    THEN [i \in DOMAIN units |->
            IF units[i].it = it
            THEN [it |-> it, its |-> Append(units[i].its, grade)]
            ELSE units[i]]
    ELSE Append(units, [it |-> it, its |-> <<grade>>])

\* the inner loop over one coder's items; ok is FALSE when convert_items raised
RECURSIVE NormalizeItems(_, _, _, _)
NormalizeItems(units, items, maskitems, convert) ==
    IF items = <<>> THEN [ok |-> TRUE, units |-> units]
    ELSE LET it == Head(items)[1]
             g == Head(items)[2]
         IN IF InMask(g, maskitems)
            THEN NormalizeItems(units, Tail(items), maskitems, convert)
            ELSE IF ~Converts(convert, g)
            THEN [ok |-> FALSE, units |-> units]
            ELSE NormalizeItems(AppendGrade(units, it, convert_items(convert, g)),
                                Tail(items), maskitems, convert)

\* the outer loop over the coders, from coder ci on
RECURSIVE NormalizeFrom(_, _, _, _, _)
NormalizeFrom(units, data, ci, maskitems, convert) ==
    IF ci > Len(data) THEN [ok |-> TRUE, units |-> units]
    ELSE LET r == NormalizeItems(units, Diter(data[ci]), maskitems, convert)
         IN IF r.ok THEN NormalizeFrom(r.units, data, ci + 1, maskitems, convert)
            ELSE r

\* ------------------------------------------------- lines 84-85: pairable
\* mutant: len(d) > 0
PairableUnits_nonempty(units) == SelectSeq(units, LAMBDA u : Len(u.its) > 0)

PairableUnits(units) == SelectSeq(units, LAMBDA u : Len(u.its) > 1)

RECURSIVE PairableValues(_)
PairableValues(units) ==
    IF units = <<>> THEN 0 ELSE Len(Head(units).its) + PairableValues(Tail(units))

\* ------------------------------------------------------ line 90: np_metric
\* a metric is [fn, builtin]: builtin says it is one of the module's three
\* functions, otherwise it is a caller's function computing the same distance
NpMetric(metric, force_vecmath) == NumpyAvailable /\ (metric.builtin \/ force_vecmath)

\* --------------------------------------------- lines 92-100 and 105-114
\* the argument pairs the metric is evaluated on, in evaluation order
\*   vectorized: for gri in gr: metric(gr, gri)
\*   scalar:     for gi in grades for gj in grades: metric(gi, gj)
PairsAcross(g1, g2, vec) ==
    LET l1 == Len(g1)
        l2 == Len(g2)
    IN [x \in 1..(l1 * l2) |->
          IF vec
          THEN <<g1[((x - 1) % l1) + 1], g2[((x - 1) \div l1) + 1]>>
          ELSE <<g1[((x - 1) \div l2) + 1], g2[((x - 1) % l2) + 1]>>]

PairsWithin(grades, vec) == PairsAcross(grades, grades, vec)

Distances(fn, pairs, vec) == [x \in DOMAIN pairs |-> Distance(fn, pairs[x][1], pairs[x][2], vec)]

\* Du of one unit
Du(fn, grades, vec) == SumSeq(Distances(fn, PairsWithin(grades, vec), vec))

\* mutant: Do = Du/float(len(grades)-1), an assignment instead of +=
DoSum_assigned(fn, units, vec) ==
    IF units = <<>> THEN Zero
    ELSE XDivInt(Du(fn, units[Len(units)].its, vec), Len(units[Len(units)].its) - 1)

\* Do before the division by n: the sum over the units of Du/float(len(grades)-1)
RECURSIVE DoSum(_, _, _)
DoSum(fn, units, vec) ==
    IF units = <<>> THEN Zero
    ELSE XAdd(DoSum(fn, SubSeq(units, 1, Len(units) - 1), vec),
              XDivInt(Du(fn, units[Len(units)].its, vec), Len(units[Len(units)].its) - 1))

ObservedDisagreement(fn, units, n, vec) == XDivInt(DoSum(fn, units, vec), n)

\* De before the division: the sum over g1, g2 of the distances across them
DeSum(fn, units, vec) ==
    LET k == Len(units)
        cell == [x \in 1..(k * k) |->
                   SumSeq(Distances(fn,
                                    PairsAcross(units[((x - 1) \div k) + 1].its,
                                                units[((x - 1) % k) + 1].its, vec),
                                    vec))]
    IN SumSeq(cell)

ExpectedDisagreement(fn, units, n, vec) == XDivInt(DeSum(fn, units, vec), n * (n - 1))

\* line 116
Truthy(x) == ~IsZero(x)

\* mutant: 1.+Do/De
FinalAlpha_plus(do, de) ==
    IF Truthy(do) /\ Truthy(de)
    THEN XAdd(One, XDiv(do, de))
    ELSE One

FinalAlpha(do, de) == IF Truthy(do) /\ Truthy(de) THEN XOneMinus(XDiv(do, de)) ELSE One

\* ----------------------------------------------------- the pairs evaluated
RECURSIVE Concat(_)
Concat(ss) == IF ss = <<>> THEN <<>> ELSE Head(ss) \o Concat(Tail(ss))

DoPairs(units, vec) == Concat([i \in DOMAIN units |-> PairsWithin(units[i].its, vec)])

DePairs(units, vec) ==
    LET k == Len(units)
    IN Concat([x \in 1..(k * k) |->
                 PairsAcross(units[((x - 1) \div k) + 1].its,
                             units[((x - 1) % k) + 1].its, vec)])

\* the pairs evaluated when the metric runs over pairs in order: all of them,
\* or those up to the first one that raises
Evaluated(fn, pairs, vec) ==
    LET ds == Distances(fn, pairs, vec)
        bad == {x \in DOMAIN ds : ds[x].k = "err"}
    IN IF bad = {} THEN pairs
       ELSE SubSeq(pairs, 1, CHOOSE x \in bad : \A y \in bad : x <= y)

\* some pair of numbers in pairs sums to 0
ZeroSum(pairs) == \E x \in DOMAIN pairs : pairs[x][1] + pairs[x][2] = 0


\* ------------------------------------------------------------------ state
VARIABLES
    data,           \* the caller's annotation matrix: a sequence of coders
    metric,         \* the metric argument, [fn, builtin]
    force_vecmath,  \* the force_vecmath argument
    convert,        \* the convert_items argument: "float" or "identity"
    missing_items,  \* the caller's missing_items object: None or a list
    pc,             \* where the call stands
    m,              \* line 54
    maskitems,      \* lines 57-62
    units,          \* lines 65-84
    ci,             \* the coder the loop of line 66 is at
    n,              \* line 85
    np_metric,      \* line 90
    Do,             \* lines 92-100
    De,             \* lines 105-114
    outcome,        \* how the call ended: [kind, value, line]
    metric_calls,   \* the number of pairs the metric was evaluated on
    zero_sum,       \* ratio metric: some evaluated pair had gi + gj == 0
    again,          \* the caller has repeated the call
    first_outcome   \* the outcome of the first call, once repeated

args == <<data, metric, force_vecmath, convert>>
locals == <<m, maskitems, units, ci, n, np_metric, Do, De>>
vars == <<data, metric, force_vecmath, convert, missing_items, pc, m, maskitems,
          units, ci, n, np_metric, Do, De, outcome, metric_calls, zero_sum,
          again, first_outcome>>

NoOutcome == [kind |-> "none", value |-> Unset, line |-> 0]
Returned(x, line) == [kind |-> "return", value |-> x, line |-> line]
Raised(kind, line) == [kind |-> kind, value |-> Unset, line |-> line]

\* ----------------------------------------------------------------- inputs
\* Two families of matrices.  The wide one has every shape (sequences of any
\* length, mappings, both in one matrix) over the full alphabets, for at most
\* two coders and two units; the deep one has the rectangular matrices of 0s
\* and 1s of up to MaxCoders coders by up to MaxUnits units.
NumRaw == {"-1", "0", "1", Star}
TextRaw == {"a", "b", Star, Masked}
DeepRaw == {"0", "1"}

WideCoders == IF MaxCoders < 2 THEN MaxCoders ELSE 2
WideUnits == IF MaxUnits < 2 THEN MaxUnits ELSE 2

UnitKeys == 1..WideUnits

\* the key sequences of a mapping built in ascending key order
KeySeqs ==
    {ks \in UNION {[1..l -> UnitKeys] : l \in 0..WideUnits} :
        \A i, j \in DOMAIN ks : i < j => ks[i] < ks[j]}

SeqCoders(raw) ==
    {[kind |-> "seq", keys |-> <<>>, vals |-> v] :
        v \in UNION {[1..l -> raw] : l \in 0..WideUnits}}

DictCoders(raw) ==
    UNION {{[kind |-> "dict", keys |-> ks, vals |-> v] : v \in [1..Len(ks) -> raw]} :
           ks \in KeySeqs}

Coders(raw) == SeqCoders(raw) \cup DictCoders(raw)

Matrices(raw) == UNION {[1..c -> Coders(raw)] : c \in 0..WideCoders}

DeepMatrices ==
    UNION {UNION {[1..c -> {[kind |-> "seq", keys |-> <<>>, vals |-> v] :
                               v \in [1..u -> DeepRaw]}] :
                  u \in 0..MaxUnits} :
           c \in 0..MaxCoders}

Metrics == [fn : MetricNames, builtin : BOOLEAN]

MissingArgs == {None, <<Star>>}

\* the state before a call executes line 54
Fresh ==
    /\ pc = "call"
    /\ m = 0
    /\ maskitems = <<>>
    /\ units = <<>>
    /\ ci = 0
    /\ n = 0
    /\ np_metric = FALSE
    /\ Do = Unset
    /\ De = Unset
    /\ outcome = NoOutcome
    /\ metric_calls = 0
    /\ zero_sum = FALSE

\* numbers under float with any metric, or text under the identity with the
\* nominal metric (the other two subtract)
Init ==
    /\ \/ /\ convert \in {"float", "identity"}
          /\ data \in Matrices(IF convert = "float" THEN NumRaw ELSE TextRaw)
          /\ metric \in Metrics
          /\ convert = "identity" => metric.fn = "nominal"
          /\ force_vecmath \in BOOLEAN
          /\ missing_items \in MissingArgs
       \/ /\ convert = "float"
          /\ data \in DeepMatrices
          /\ metric \in Metrics
          /\ force_vecmath = FALSE
          /\ missing_items = <<Star>>
    /\ Fresh
    /\ again = FALSE
    /\ first_outcome = NoOutcome

\* ---------------------------------------------------------------- actions
\* lines 54-65
BuildMaskItems ==
    /\ pc = "call"
    /\ m' = Len(data)
    /\ maskitems' = MaskItems(missing_items)
    /\ missing_items' = CallerMissingItems(missing_items)
    /\ units' = <<>>
    /\ ci' = 1
    /\ pc' = "normalize"
    /\ UNCHANGED <<args, n, np_metric, Do, De, outcome, metric_calls, zero_sum,
                   again, first_outcome>>

\* lines 66-81, one coder d
NormalizeCoder ==
    /\ pc = "normalize"
    /\ ci <= Len(data)
    /\ LET r == NormalizeItems(units, Diter(data[ci]), maskitems, convert)
       IN /\ units' = r.units
          /\ IF r.ok
             THEN /\ ci' = ci + 1
                  /\ UNCHANGED <<pc, outcome>>
             ELSE /\ pc' = "done"
                  /\ outcome' = Raised("ConvertError", 81)
                  /\ UNCHANGED ci
    /\ UNCHANGED <<args, missing_items, m, maskitems, n, np_metric, Do, De,
                   metric_calls, zero_sum, again, first_outcome>>

\* lines 84-90
RetainPairable ==
    /\ pc = "normalize"
    /\ ci > Len(data)
    /\ units' = PairableUnits(units)
    /\ n' = PairableValues(units')
    /\ IF n' = 0
       THEN /\ pc' = "done"
            /\ outcome' = Raised("NoItems", 88)
            /\ UNCHANGED np_metric
       ELSE /\ np_metric' = NpMetric(metric, force_vecmath)
            /\ pc' = "observed"
            /\ UNCHANGED outcome
    /\ UNCHANGED <<args, missing_items, m, maskitems, ci, Do, De, metric_calls,
                   zero_sum, again, first_outcome>>

\* lines 92-103
Observed ==
    /\ pc = "observed"
    /\ LET seen == Evaluated(metric.fn, DoPairs(units, np_metric), np_metric)
       IN /\ metric_calls' = metric_calls + Len(seen)
          /\ zero_sum' = (zero_sum \/ (metric.fn = "ratio" /\ ZeroSum(seen)))
    /\ Do' = ObservedDisagreement(metric.fn, units, n, np_metric)
    /\ IF Do'.k = "err"
       THEN /\ pc' = "done"
            /\ outcome' = Raised("ZeroDivisionError", 98)
       ELSE IF IsZero(Do')
       THEN /\ pc' = "done"
            /\ outcome' = Returned(One, 103)
       ELSE /\ pc' = "expected"
            /\ UNCHANGED outcome
    /\ UNCHANGED <<args, missing_items, m, maskitems, units, ci, n, np_metric, De,
                   again, first_outcome>>

\* lines 105-116
Expected ==
    /\ pc = "expected"
    /\ LET seen == Evaluated(metric.fn, DePairs(units, np_metric), np_metric)
       IN /\ metric_calls' = metric_calls + Len(seen)
          /\ zero_sum' = (zero_sum \/ (metric.fn = "ratio" /\ ZeroSum(seen)))
    /\ De' = ExpectedDisagreement(metric.fn, units, n, np_metric)
    /\ pc' = "done"
    /\ IF De'.k = "err"
       THEN outcome' = Raised("ZeroDivisionError", 113)
       ELSE outcome' = Returned(FinalAlpha(Do, De'), 116)
    /\ UNCHANGED <<args, missing_items, m, maskitems, units, ci, n, np_metric, Do,
                   again, first_outcome>>

\* the caller calls once more with the same arguments
CallAgain ==
    /\ pc = "done"
    /\ ~again
    /\ again' = TRUE
    /\ first_outcome' = outcome
    /\ pc' = "call"
    /\ m' = 0
    /\ maskitems' = <<>>
    /\ units' = <<>>
    /\ ci' = 0
    /\ n' = 0
    /\ np_metric' = FALSE
    /\ Do' = Unset
    /\ De' = Unset
    /\ outcome' = NoOutcome
    /\ metric_calls' = 0
    /\ zero_sum' = FALSE
    /\ UNCHANGED <<args, missing_items>>

Call == BuildMaskItems \/ NormalizeCoder \/ RetainPairable \/ Observed \/ Expected

Next == Call

Spec == Init /\ [][Next]_vars

NextRepeat == Call \/ CallAgain

SpecRepeat == Init /\ [][NextRepeat]_vars


\* ------------------------------------------------------ the fixed scenarios
\* [ [5,5,5] ]: one sequence, so one coder rating three units
Data555 == << [kind |-> "seq", keys |-> <<>>, vals |-> <<"5", "5", "5">>] >>

\* [ [5],[5],[5] ]: three coders rating one unit
Data5x3 == [c \in 1..3 |-> [kind |-> "seq", keys |-> <<>>, vals |-> <<"5">>]]

\* [{1: 'a', 2: 'b', 3: 'c'}, {1: 'a', 2: 'b', 3: 'd'}]
DataABCD ==
    << [kind |-> "dict", keys |-> <<1, 2, 3>>, vals |-> <<"a", "b", "c">>],
       [kind |-> "dict", keys |-> <<1, 2, 3>>, vals |-> <<"a", "b", "d">>] >>

\* sequences of at most three 5s, for at most three coders
FiveMatrices ==
    LET rows == {[kind |-> "seq", keys |-> <<>>, vals |-> v] :
                    v \in UNION {[1..l -> {"5"}] : l \in 0..3}}
    IN UNION {[1..c -> rows] : c \in 1..3}

\* the first coder of DataABCD with any second coder over the same units
LetterMatrices ==
    {<<DataABCD[1], [kind |-> "dict", keys |-> <<1, 2, 3>>, vals |-> v]>> :
        v \in [1..3 -> {"a", "b", "c", "d"}]}

InitScenario ==
    /\ convert \in {"float", "identity"}
    /\ data \in (IF convert = "float" THEN FiveMatrices ELSE LetterMatrices)
    /\ metric \in Metrics
    /\ convert = "identity" => metric.fn = "nominal"
    /\ force_vecmath \in BOOLEAN
    /\ missing_items \in MissingArgs
    /\ Fresh
    /\ again = FALSE
    /\ first_outcome = NoOutcome

SpecScenario == InitScenario /\ [][Next]_vars

\* ------------------------------------------- the call as a whole function
Result(o) == [kind |-> o.kind, value |-> o.value]

\* krippendorff_alpha on the evaluation path vec
AlphaOnPath(dat, fn, vec, conv, missing) ==
    LET r == NormalizeFrom(<<>>, dat, 1, MaskItems(missing), conv)
        u == PairableUnits(r.units)
        nn == PairableValues(u)
        do == ObservedDisagreement(fn, u, nn, vec)
        de == ExpectedDisagreement(fn, u, nn, vec)
    IN IF ~r.ok THEN Result(Raised("ConvertError", 81))
       ELSE IF nn = 0 THEN Result(Raised("NoItems", 88))
       ELSE IF do.k = "err" THEN Result(Raised("ZeroDivisionError", 98))
       ELSE IF IsZero(do) THEN Result(Returned(One, 103))
       ELSE IF de.k = "err" THEN Result(Raised("ZeroDivisionError", 113))
       ELSE Result(Returned(FinalAlpha(do, de), 116))

krippendorff_alpha(dat, met, force, conv, missing) ==
    AlphaOnPath(dat, met.fn, NpMetric(met, force), conv, missing)

\* --------------------------------------------- what the claims speak about
Done == pc = "done"

\* g equals one of the markers
IsMarker(g, mask) == g \in {mask[i] : i \in DOMAIN mask}

\* the raw (coder, key, value) entries of the matrix that are not missing markers
Entries(dat, mask) ==
    {e \in UNION {{<<c, Diter(dat[c])[i][1], Diter(dat[c])[i][2]>> :
                      i \in DOMAIN Diter(dat[c])} : c \in DOMAIN dat} :
        ~IsMarker(e[3], mask)}

Ratings(dat, mask) == {e[3] : e \in Entries(dat, mask)}

Keys(dat, mask) == {e[2] : e \in Entries(dat, mask)}

\* the coders with a non-missing rating of unit it
RatedBy(dat, mask, it) == {e[1] : e \in {x \in Entries(dat, mask) : x[2] = it}}

\* some unit has non-missing ratings from two coders
SomePairable(dat, mask) ==
    \E it \in Keys(dat, mask) : Cardinality(RatedBy(dat, mask, it)) >= 2

\* all non-missing ratings are one value
Identical(dat, mask) == Cardinality(Ratings(dat, mask)) <= 1


\* ------------------------------------------------------------------ claims

\* C1 as stated: whenever all the non-missing ratings of the matrix are one
\* identical value, the call ends with Do == 0 and returns exactly 1.0 (here
\* for two coders who rate 1 wherever they rate, and the interval metric).
C1_IdenticalAlwaysOne ==
    (/\ Done
     /\ Identical(data, maskitems)
     /\ Len(data) = 2
     /\ Ratings(data, maskitems) = {"1"}
     /\ metric = [fn |-> "interval", builtin |-> TRUE]
     /\ convert = "float")
        => (IsZero(Do) /\ Result(outcome) = Result(Returned(One, 103)))

\* C1, amended: when all the non-missing ratings are one identical value that
\* convert_items accepts, some unit is rated by two coders, and the value is
\* not 0 under the ratio metric, then Do == 0 and the call returns exactly 1.0
\* from line 103, without evaluating De.
C1_IdenticalPairableOne ==
    (/\ Done
     /\ Identical(data, maskitems)
     /\ SomePairable(data, maskitems)
     /\ \A g \in Ratings(data, maskitems) : Converts(convert, g)
     /\ ~(metric.fn = "ratio" /\ "0" \in Ratings(data, maskitems)))
        => (IsZero(Do) /\ outcome = Returned(One, 103) /\ De = Unset)

C1_Witness ==
    /\ Done
    /\ Identical(data, maskitems)
    /\ SomePairable(data, maskitems)
    /\ metric.fn = "ratio"
    /\ Len(units) = 2
    /\ outcome = Returned(One, 103)

\* C2: the no-data error is raised exactly when n == 0, which is exactly when
\* no unit has two non-missing ratings; it is raised before the metric is
\* evaluated on any pair, and no value is returned.
C2_NoItemsExactly ==
    /\ (outcome.kind = "NoItems") => (Done /\ n = 0 /\ metric_calls = 0
                                      /\ outcome.value = Unset /\ Do = Unset)
    /\ (pc \in {"observed", "expected"}) => (n # 0 /\ outcome.kind = "none")
    /\ (Done /\ outcome.kind # "ConvertError")
          => /\ (outcome.kind = "NoItems") <=> (n = 0)
             /\ (n = 0) <=> ~SomePairable(data, maskitems)

C2_Witness ==
    /\ Done
    /\ outcome.kind = "NoItems"
    /\ Len(data) = 2
    /\ Cardinality(Keys(data, maskitems)) = 2
    /\ \A it \in Keys(data, maskitems) : Cardinality(RatedBy(data, maskitems, it)) = 1

\* C3 as stated: krippendorff_alpha([ [5,5,5] ], interval_metric) ends with
\* Do == 0 and returns 1.0.
C3_OneRowOfFives ==
    (Done /\ data = Data555 /\ metric = [fn |-> "interval", builtin |-> TRUE]
          /\ convert = "float")
        => (IsZero(Do) /\ Result(outcome) = Result(Returned(One, 103)))

\* C3, amended: with interval_metric, [ [5],[5],[5] ] (three coders rating one
\* unit 5) ends with Do == 0 and returns 1.0, while [ [5,5,5] ] is one coder
\* rating three units and raises the no-data error.
C3_ThreeCodersOfFive ==
    (Done /\ metric = [fn |-> "interval", builtin |-> TRUE] /\ convert = "float")
        => /\ data = Data5x3 => (IsZero(Do) /\ outcome = Returned(One, 103))
           /\ data = Data555 => outcome = Raised("NoItems", 88)

C3_Witness ==
    /\ Done
    /\ data = Data5x3
    /\ metric = [fn |-> "interval", builtin |-> TRUE]
    /\ convert = "float"
    /\ units = << [it |-> 0, its |-> <<5, 5, 5>>] >>
    /\ outcome.kind = "return"

\* the j-th smallest member of a set of numbers
Nth(S, j) == CHOOSE x \in S : Cardinality({y \in S : y <= x}) = j

\* the permutations of a set
Perms(S) == {f \in [S -> S] : \A x, y \in S : x # y => f[x] # f[y]}

\* the permutations that move something
Moving(P) == {q \in P : \E x \in DOMAIN q : q[x] # x}

PermuteCoders(dat, p) == [c \in DOMAIN dat |-> dat[p[c]]]

\* the unit keys of the matrix, and those of its mappings
AllKeys(dat) ==
    UNION {{Diter(dat[c])[i][1] : i \in DOMAIN dat[c].vals} : c \in DOMAIN dat}

DictKeys(dat) ==
    UNION {{dat[c].keys[i] : i \in DOMAIN dat[c].keys} : c \in DOMAIN dat}

\* the relabellings of the unit keys that keep every sequence a sequence
UnitPerms(dat) ==
    {q \in Perms(AllKeys(dat)) :
        \A c \in DOMAIN dat :
            dat[c].kind = "seq" => \A x \in 0..(Len(dat[c].vals) - 1) :
                                       q[x] < Len(dat[c].vals)}

\* unit key x becomes q[x], for every coder
RelabelUnits(dat, q) ==
    [c \in DOMAIN dat |->
        IF dat[c].kind = "dict"
        THEN [dat[c] EXCEPT !.keys = [i \in DOMAIN dat[c].keys |-> q[dat[c].keys[i]]]]
        ELSE [dat[c] EXCEPT !.vals =
                [j \in DOMAIN dat[c].vals |->
                    dat[c].vals[(CHOOSE x \in AllKeys(dat) : q[x] = j - 1) + 1]]]]

\* every mapping's items put in the order of q[key]
ReorderItems(dat, q) ==
    [c \in DOMAIN dat |->
        IF dat[c].kind = "dict"
        THEN LET d == dat[c]
                 at(j) == CHOOSE i \in DOMAIN d.keys :
                             q[d.keys[i]] = Nth({q[d.keys[x]] : x \in DOMAIN d.keys}, j)
             IN [d EXCEPT !.keys = [j \in DOMAIN d.keys |-> d.keys[at(j)]],
                          !.vals = [j \in DOMAIN d.vals |-> d.vals[at(j)]]]
        ELSE dat[c]]

\* C4: the outcome of a call is the outcome of the call on the matrix with its
\* coders permuted, on the matrix with its unit keys relabelled by a
\* permutation, and on the matrix with every mapping's items reordered,
\* whichever the metric and the evaluation path.
C4_PermutationInvariant ==
    Done =>
        /\ \A p \in Perms(DOMAIN data) :
              krippendorff_alpha(PermuteCoders(data, p), metric, force_vecmath,
                                 convert, missing_items) = Result(outcome)
        /\ \A q \in Moving(UnitPerms(data)) :
              krippendorff_alpha(RelabelUnits(data, q), metric, force_vecmath,
                                 convert, missing_items) = Result(outcome)
        /\ \A q \in Moving(Perms(DictKeys(data))) :
              krippendorff_alpha(ReorderItems(data, q), metric, force_vecmath,
                                 convert, missing_items) = Result(outcome)

C4_Witness ==
    /\ Done
    /\ outcome.kind = "return"
    /\ outcome.value \notin {One, Zero}
    /\ Len(units) = 2
    /\ \E p \in Perms(DOMAIN data) : PermuteCoders(data, p) # data
    /\ \E q \in UnitPerms(data) : RelabelUnits(data, q) # data

\* C5: for the three built-in distances, the call ends on the vectorized path
\* as it ends on the scalar path: the same Do, and the same value returned or
\* an error in both.
C5_PathsAgree ==
    (Done /\ n # 0)
        => LET other == AlphaOnPath(data, metric.fn, ~np_metric, convert, missing_items)
           IN /\ (outcome.kind = "return") <=> (other.kind = "return")
              /\ outcome.kind = "return" => other.value = outcome.value
              /\ Do = ObservedDisagreement(metric.fn, units, n, ~np_metric)

\* C6: when the ratio metric was evaluated on a pair with gi + gj == 0, the
\* call has raised ZeroDivisionError and returned no value.
C6_ZeroSumRaises ==
    (Done /\ metric.fn = "ratio" /\ zero_sum)
        => (outcome.kind = "ZeroDivisionError" /\ outcome.value = Unset)

\* C7: for [{1:'a',2:'b',3:'c'}, {1:'a',2:'b',3:'d'}] with the identity and the
\* nominal metric, units 1 and 2 contribute distance 0 and unit 3 does not, so
\* Do > 0, and the alpha returned is strictly between 0 and 1.
C7_PartialAgreement ==
    (Done /\ data = DataABCD /\ convert = "identity" /\ metric.fn = "nominal")
        => /\ Len(units) = 3
           /\ IsZero(Du("nominal", units[1].its, np_metric))
           /\ IsZero(Du("nominal", units[2].its, np_metric))
           /\ ~IsZero(Du("nominal", units[3].its, np_metric))
           /\ Less(Zero, Do)
           /\ outcome.kind = "return"
           /\ Less(Zero, outcome.value)
           /\ Less(outcome.value, One)

C7_Witness ==
    /\ Done
    /\ data = DataABCD
    /\ convert = "identity"
    /\ metric = [fn |-> "nominal", builtin |-> TRUE]
    /\ Do = Fin(1, 3)
    /\ De = Fin(13, 15)
    /\ outcome = Returned(Fin(8, 13), 116)


\* the raw rating coder c gives unit it
RatingOf(dat, mask, c, it) ==
    (CHOOSE e \in Entries(dat, mask) : e[1] = c /\ e[2] = it)[3]

\* the converted non-missing ratings of unit it, one per coder, in coder order
GradesOf(dat, mask, conv, it) ==
    LET cs == RatedBy(dat, mask, it)
    IN [j \in 1..Cardinality(cs) |->
          convert_items(conv, RatingOf(dat, mask, Nth(cs, j), it))]

\* the call is past line 85
Filtered ==
    \/ pc \in {"observed", "expected"}
    \/ (Done /\ outcome.kind \in {"NoItems", "ZeroDivisionError", "return"})

\* C8: after normalization and filtering every retained unit holds at least 2
\* values, its values are the converted non-missing ratings of that unit, one
\* for each coder who rated it (so at most m), no two retained units share a
\* key, and n is the number of values over the retained units.
C8_RetainedUnits ==
    Filtered =>
        /\ \A i \in DOMAIN units :
              /\ Len(units[i].its) >= 2
              /\ Len(units[i].its) <= m
              /\ units[i].its = GradesOf(data, maskitems, convert, units[i].it)
        /\ \A i, j \in DOMAIN units : units[i].it = units[j].it => i = j
        /\ n = Cardinality({<<i, j>> \in (DOMAIN units) \X (1..m) :
                               j <= Len(units[i].its)})

C8_Witness ==
    /\ pc = "observed"
    /\ Len(units) = 1
    /\ n = 2
    /\ Cardinality(Keys(data, maskitems)) = 2
    /\ \E c \in DOMAIN data : \E i \in DOMAIN data[c].vals :
          IsMarker(data[c].vals[i], maskitems)

\* the metric is a non-negative number on every pair of pooled values
NonNegativeMetric ==
    \A i, j \in DOMAIN units :
        \A x \in DOMAIN units[i].its, y \in DOMAIN units[j].its :
            LET dist == Distance(metric.fn, units[i].its[x], units[j].its[y], np_metric)
            IN IsFin(dist) /\ dist.n >= 0

\* C9: past the no-data check n >= 2 and every retained unit has two values or
\* more, so len(grades)-1, n and n*(n-1) are positive; and for a metric that
\* is non-negative on all pairs Do > 0 implies De > 0, line 116 returns
\* 1 - Do/De and never its fallback, and a returned value is at most 1.0.
C9_DivisorsAndFallback ==
    /\ (Filtered /\ outcome.kind # "NoItems")
          => /\ n >= 2
             /\ n * (n - 1) > 0
             /\ \A i \in DOMAIN units : Len(units[i].its) - 1 > 0
    /\ (Done /\ outcome.kind = "return" /\ NonNegativeMetric)
          => /\ LessEq(outcome.value, One)
             /\ outcome.line \in {103, 116}
             /\ outcome.line = 103 <=> IsZero(Do)
             /\ outcome.line = 116
                   => /\ IsPos(Do) /\ IsPos(De)
                      /\ outcome.value = XOneMinus(XDiv(Do, De))
                      /\ Less(outcome.value, One)

C9_Witness ==
    /\ Done
    /\ NonNegativeMetric
    /\ outcome.line = 116
    /\ metric.fn = "interval"
    /\ Less(outcome.value, Zero)

\* C10: a call changes none of its arguments, whether it returns or raises:
\* the caller's data and missing_items stay as they were (the masked singleton
\* goes to maskitems, a private copy), and a repeated call with the same
\* arguments ends as the first did.
C10_NoSideEffects ==
    /\ [][data' = data /\ missing_items' = missing_items /\ metric' = metric
          /\ force_vecmath' = force_vecmath /\ convert' = convert]_vars
    /\ [](pc # "call" => maskitems = MaskItems(missing_items))
    /\ []((again /\ Done) => outcome = first_outcome)

C10_Witness ==
    /\ again
    /\ Done
    /\ missing_items = <<Star>>
    /\ maskitems = <<Star, Masked>>
    /\ outcome.kind = "return"
    /\ outcome.line = 116

====
